---- MODULE Spec2Model ----
(***************************************************************************)
(* Model of the finite state machine of fsm/fsm.h: class StateTransition   *)
(* and class template Fsm<StateEnum, ContextType, Policy>.                 *)
(*                                                                         *)
(* The state enumeration is modelled as the default `enum class` the tests *)
(* use: values 0 .. Count-1 plus the sentinel Count, with underlying type  *)
(* int (signed, 32 bit).  Callbacks are user code: the model stops at      *)
(* every callback invocation (pc), so that user code running inside a      *)
(* callback can call state() and the setters of a builder, and the code    *)
(* between two callback invocations runs atomically.  assert() is the      *)
(* assert of a build without NDEBUG: a failed assertion aborts.            *)
(***************************************************************************)
EXTENDS Integers, Sequences, FiniteSets, TLC

(***************************************************************************)
(* Bounds of the model.                                                    *)
(***************************************************************************)
\* StateEnum::Count of the instantiating enum (fsm.h:197), a template input.
TotalStateCount == 3
\* number of update() calls the caller makes
MaxUpdates == 2
\* number of valid transitions the onUpdate callbacks ask for in one run
MaxTransitions == 2
\* number of callback slots of the table the caller fills
MaxConfiguredSlots == 3
\* number of update() calls the caller makes on a machine whose onUpdate
\* callbacks each return one fixed decision
MaxScriptedUpdates == 3
\* number of states of such a machine whose onUpdate asks for a transition
MaxTransitioningStates == 2

(***************************************************************************)
(* Program constants.                                                      *)
(***************************************************************************)
kMaxTransitionsPerFrame == 256
\* one 16-bit limb of the uint64_t targetStateValue
Limb == 65536

Count == TotalStateCount
States == 0 .. (Count - 1)
Policies == {"Immediate", "SingleTransition"}
\* contextData of the constructor: nullptr (the default) or a caller's object
ContextHandles == {"nullptr", "ctx"}
\* the TimeValue the caller passes to the n-th update(): its clock, which
\* differs from call to call
TimeValues(n) == {10 * n}
\* what a caller can pass to StateTransition::to(): the states, the sentinel,
\* a value above it and a value below 0 (static_cast<StateEnum>(-1))
TargetValues == (-1) .. (Count + 1)
NoBuilder == Count + 7
NoState == Count + 8

VARIABLES
    policy,              \* template parameter Policy
    contextPointer,      \* Fsm::contextPointer
    currentActiveState,  \* Fsm::currentActiveState
    lastEnteredState,    \* Fsm::lastEnteredState
    allStateCallbacks,   \* Fsm::allStateCallbacks
    pc,                  \* where control is: caller ("idle"), inside a callback, aborted, crashed
    failure,             \* the assertion that aborted the program, or "none"
    currentTime,         \* argument of the update() call in progress
    transitionCount,     \* loop variable of update(), Immediate policy
    nextState,           \* local nextState of processStateStep while onExit runs
    builder,             \* the state whose StateConfiguration the caller holds
    log,                 \* callback invocations of the current update() call
    steps,               \* processStateStep calls that returned in the current update() call
    updateCalls,         \* number of update() calls made
    transitionsDone,     \* number of transitions executed
    updatesInvoked,      \* number of onUpdate invocations
    enterCount,          \* per state: onEnter invocations
    exitCount,           \* per state: onExit invocations
    enterSteps,          \* per state: executions of lastEnteredState = currentActiveState
    arrivals,            \* per state: times the state became the active state
    conversion           \* a StateTransition on its way from to()/stay() to fsm.h:354-359

vars == <<policy, contextPointer, currentActiveState, lastEnteredState,
          allStateCallbacks, pc, failure, currentTime, transitionCount,
          nextState, builder, log, steps, updateCalls, transitionsDone,
          updatesInvoked, enterCount, exitCount, enterSteps, arrivals, conversion>>

(***************************************************************************)
(* class StateTransition                                                   *)
(***************************************************************************)
\* static_cast<uint64_t>(newState) of an enum with underlying type int:
\* sign extension to 64 bits, kept as four 16-bit limbs (least significant first)
ToUint64(v) ==
    <<v % Limb, (v \div Limb) % Limb,
      IF v < 0 THEN Limb - 1 ELSE 0, IF v < 0 THEN Limb - 1 ELSE 0>>

\* StateTransition::to(newState)
TransitionTo(v) ==
    [targetStateValue |-> ToUint64(v), shouldRemainInCurrentState |-> FALSE]

\* StateTransition::stay()
Stay ==
    [targetStateValue |-> <<0, 0, 0, 0>>, shouldRemainInCurrentState |-> TRUE]

\* static_cast<StateEnum>(targetStateValue): the low 32 bits as a signed int
ToStateEnum(u) ==
    IF u[2] >= Limb \div 2 THEN (u[2] - Limb) * Limb + u[1] ELSE u[2] * Limb + u[1]

(***************************************************************************)
(* The two casts for any underlying type of the state enumeration.  A      *)
(* value of the enumeration is held as the two's complement bit pattern of *)
(* its underlying type, in 16-bit limbs (least significant first, the      *)
(* limbs above the type's width 0); the uint64_t likewise, in four limbs.  *)
(***************************************************************************)
UnderlyingTypes == [signed : BOOLEAN, bits : {8, 16, 32, 64}]

\* the limb that holds the most significant bits of a value of the type
TopLimb(type) == IF type.bits = 8 THEN 1 ELSE type.bits \div 16

\* 2 ^ (number of bits of the type in its top limb)
TopModulus(type) == IF type.bits = 8 THEN 2 ^ 8 ELSE Limb

IsNegative(type, p) == type.signed /\ p[TopLimb(type)] >= TopModulus(type) \div 2

\* mutant: the target is stored in a 32-bit member
StaticCastToUint64_Into32Bits(type, p) ==
    [i \in 1 .. 4 |->
        IF i > 2 THEN 0
        ELSE IF i < TopLimb(type) THEN p[i]
        ELSE IF IsNegative(type, p)
               THEN IF i = TopLimb(type) THEN p[i] + (Limb - TopModulus(type)) ELSE Limb - 1
               ELSE p[i]]

\* fsm.h:50  static_cast<uint64_t>(newState): the value modulo 2^64, which
\* extends the pattern with the sign of a negative value, with 0 otherwise
StaticCastToUint64(type, p) ==
    [i \in 1 .. 4 |->
        IF i < TopLimb(type) THEN p[i]
        ELSE IF IsNegative(type, p)
               THEN IF i = TopLimb(type) THEN p[i] + (Limb - TopModulus(type)) ELSE Limb - 1
               ELSE p[i]]

\* fsm.h:359  static_cast<StateEnum>(targetStateValue): the value modulo
\* 2^bits, the low bits of the uint64_t
StaticCastToStateEnum(type, u) ==
    [i \in 1 .. 4 |->
        IF i < TopLimb(type) THEN u[i]
        ELSE IF i = TopLimb(type) THEN u[i] % TopModulus(type)
        ELSE 0]

\* values of an enumeration of the type: 0, 1, the sentinel Count, the
\* largest value, and for the limbs all ones (-1 when signed), the sign bit
\* alone (the smallest value when signed) and all bits but the sign bit
EnumValues(type) ==
    LET top == TopLimb(type)
        Filled(low, high) ==
            [i \in 1 .. 4 |-> IF i < top THEN low ELSE IF i = top THEN high ELSE 0]
    IN  { Filled(0, 0), Filled(Limb - 1, TopModulus(type) - 1),
          Filled(0, TopModulus(type) \div 2),
          Filled(Limb - 1, TopModulus(type) \div 2 - 1),
          [Filled(0, 0) EXCEPT ![1] = 1], [Filled(0, 0) EXCEPT ![1] = Count] }

\* no decision is on its way
NoConversion == [phase |-> "none"]

\* every decision an onUpdate callback can return
Decisions == {Stay} \cup {TransitionTo(v) : v \in TargetValues}

(***************************************************************************)
(* struct StateCallbacks: an empty std::function is FALSE / "none".        *)
(***************************************************************************)
\* bodies an onUpdate callable can have: "any" may return any decision
UpdateBodies == {"any"}
EmptyCallbacks == [onEnter |-> FALSE, onUpdate |-> "none", onExit |-> FALSE]
AllBundles == [onEnter : BOOLEAN, onUpdate : {"none"} \cup UpdateBodies, onExit : BOOLEAN]

\* getStateIndex + allStateCallbacks[...]: inside the table the one bundle;
\* outside it the read is out of bounds: each slot reads as empty or as
\* non-empty, whatever the memory there holds
CurrentCallbacks(state) ==
    IF state \in States THEN {allStateCallbacks[state]} ELSE AllBundles


(***************************************************************************)
(* The part of the state that update() and processStateStep work on, as a  *)
(* record, so that the code between two callback invocations is one        *)
(* function from record to set of records (a set because an out-of-bounds  *)
(* read has more than one outcome).  The template parameter Policy is part *)
(* of it: update() is compiled for one policy (if constexpr, fsm.h:291).   *)
(***************************************************************************)
Machine ==
    [policy |-> policy,
     cur |-> currentActiveState, last |-> lastEnteredState, pc |-> pc,
     failure |-> failure, time |-> currentTime, tc |-> transitionCount,
     next |-> nextState, log |-> log, steps |-> steps,
     tdone |-> transitionsDone, updates |-> updatesInvoked, enterCount |-> enterCount,
     exitCount |-> exitCount, enterSteps |-> enterSteps, arrivals |-> arrivals]

Install(m) ==
    /\ currentActiveState' = m.cur
    /\ lastEnteredState' = m.last
    /\ pc' = m.pc
    /\ failure' = m.failure
    /\ currentTime' = m.time
    /\ transitionCount' = m.tc
    /\ nextState' = m.next
    /\ log' = m.log
    /\ steps' = m.steps
    /\ transitionsDone' = m.tdone
    /\ updatesInvoked' = m.updates
    /\ enterCount' = m.enterCount
    /\ exitCount' = m.exitCount
    /\ enterSteps' = m.enterSteps
    /\ arrivals' = m.arrivals

\* a failed assert(): the program aborts where it stands
Abort(m, why) == [m EXCEPT !.pc = "aborted", !.failure = why]

\* one more counted for a state of the table
Bump(f, state) == IF state \in States THEN [f EXCEPT ![state] = @ + 1] ELSE f

\* mutant: the callbacks are invoked with no time
Event_ZeroTime(cb, st, m) == [cb |-> cb, st |-> st, ctx |-> contextPointer, time |-> 0]

\* mutant: the callbacks are invoked without the context
Event_NullContext(cb, st, m) == [cb |-> cb, st |-> st, ctx |-> "nullptr", time |-> m.time]

\* a callback invoked with (contextPointer, currentTime)
Event(cb, st, m) == [cb |-> cb, st |-> st, ctx |-> contextPointer, time |-> m.time]

\* a callback slot that reads non-empty is invoked: a callable of the table
\* runs (user code, pc); the bytes of an out-of-bounds slot are no callable
\* and the call crashes
Invoke(m, cb) ==
    IF m.cur \in States
      THEN [m EXCEPT !.pc = cb, !.log = Append(@, Event(cb, m.cur, m)),
                     !.updates = IF cb = "onUpdate" THEN @ + 1 ELSE @]
      ELSE [m EXCEPT !.pc = "crashed"]

\* what a processStateStep call did, noted when it returns: the state it
\* ran for, its return value, the active state it leaves, whether onUpdate
\* ran, whether it decided to stay, the decoded target, and where its
\* callback invocations end in the log
StepRecord(from, m, transitioned, updated, stay, target) ==
    [st |-> from, transitioned |-> transitioned, next |-> m.cur,
     updated |-> updated, stay |-> stay, target |-> target, end |-> Len(m.log)]

\* mutant: the enter check fires in every step
NeedsEnter_Always(cur, last) == TRUE

\* mutant: the enter check never fires
NeedsEnter_Never(cur, last) == FALSE

\* fsm.h:337  currentActiveState != lastEnteredState
NeedsEnter(cur, last) == cur # last

\* mutant: the marker is not updated after onEnter
MarkEntered_Forgets(m) == m

\* fsm.h:343  lastEnteredState = currentActiveState
MarkEntered(m) == [m EXCEPT !.last = m.cur, !.enterSteps = Bump(@, m.cur)]

\* mutant: a transition to the current state is executed
IsInvalidTransition_IgnoresSelf(next, cur) == next >= Count

\* fsm.h:363  nextState == currentActiveState || nextState >= StateEnum::Count
IsInvalidTransition(next, cur) == next = cur \/ next >= Count

\* fsm.h:285  currentActiveState >= StateEnum::Count
IsInvalidActiveState(state) == state >= Count

\* mutant: the loop of the Immediate policy does not stop at a first step
\* that reports no transition, it runs onUpdate of the state once more
StepReturnsFalse_ChainedRunsAgain(m, from, updated, stay, target) ==
    LET done == [m EXCEPT !.steps = Append(@, StepRecord(from, m, FALSE, updated, stay, target))]
    IN  IF m.policy = "Immediate" /\ updated /\ m.tc = 0
          THEN [done EXCEPT !.tc = 1, !.pc = "onUpdate", !.updates = @ + 1,
                            !.log = Append(@, Event("onUpdate", m.cur, m))]
          ELSE [done EXCEPT !.pc = "idle"]

\* processStateStep returns false; update() returns under both policies
\* (fsm.h:295-298 and fsm.h:308)
StepReturnsFalse(m, from, updated, stay, target) ==
    [m EXCEPT !.steps = Append(@, StepRecord(from, m, FALSE, updated, stay, target)),
              !.pc = "idle"]

\* mutant: no early return for a state without onUpdate: a default decision
\* (target 0, not staying) is processed and the machine switches to state 0
AfterEnter_NoTerminalCheck(m) ==
    { IF cb.onUpdate = "none"
        THEN IF IsInvalidTransition(0, m.cur)
               THEN StepReturnsFalse(m, m.cur, FALSE, FALSE, 0)
               ELSE [m EXCEPT !.cur = 0, !.arrivals = Bump(@, 0), !.tdone = @ + 1,
                              !.steps = Append(@, StepRecord(m.cur, [m EXCEPT !.cur = 0],
                                                             TRUE, FALSE, FALSE, 0)),
                              !.pc = "idle"]
        ELSE Invoke(m, "onUpdate")
      : cb \in CurrentCallbacks(m.cur) }

\* fsm.h:346-352: a state without onUpdate is terminal, else onUpdate is invoked
AfterEnter(m) ==
    { IF cb.onUpdate = "none"
        THEN StepReturnsFalse(m, m.cur, FALSE, FALSE, NoState)
        ELSE Invoke(m, "onUpdate")
      : cb \in CurrentCallbacks(m.cur) }

\* mutant: the marker is set only for a state that has an onEnter callback
ProcessStateStep_MarksOnlyWithCallback(m) ==
    (IF m.cur \in States THEN {} ELSE {[m EXCEPT !.pc = "crashed"]})
    \cup
    UNION { IF NeedsEnter(m.cur, m.last)
              THEN IF cb.onEnter
                     THEN {Invoke([m EXCEPT !.enterCount = Bump(@, m.cur)], "onEnter")}
                     ELSE AfterEnter(m)
              ELSE AfterEnter(m)
            : cb \in CurrentCallbacks(m.cur) }

\* fsm.h:333-344: the bundle of the active state, and onEnter when the state
\* has not been entered yet
ProcessStateStep(m) ==
    (IF m.cur \in States THEN {} ELSE {[m EXCEPT !.pc = "crashed"]})
    \cup
    UNION { IF NeedsEnter(m.cur, m.last)
              THEN IF cb.onEnter
                     THEN {Invoke([m EXCEPT !.enterCount = Bump(@, m.cur)], "onEnter")}
                     ELSE AfterEnter(MarkEntered(m))
              ELSE AfterEnter(m)
            : cb \in CurrentCallbacks(m.cur) }

\* mutant: update() returns after one step under every policy
RunsAnotherStep_Never(m) == FALSE

\* mutant: update() loops under every policy
RunsAnotherStep_Always(m) == TRUE

\* fsm.h:291-309: does update() run another step after a step that returned
\* true (the loop of the Immediate policy)
RunsAnotherStep(m) == m.policy = "Immediate"

\* mutant: update() returns to its caller after a step that executed a
\* transition, the state it switched to is not updated in the same call
StepReturnsTrue_ReturnsToCaller(m, from) ==
    {[m EXCEPT !.steps = Append(@, StepRecord(from, m, TRUE, TRUE, FALSE, m.cur)),
               !.pc = "idle"]}

\* mutant: the loop of the Immediate policy takes the state it switched to
\* as entered already
StepReturnsTrue_ChainedSkipsEnter(m, from) ==
    LET done == [m EXCEPT !.steps = Append(@, StepRecord(from, m, TRUE, TRUE, FALSE, m.cur))]
        again == [done EXCEPT !.tc = @ + 1, !.last = m.cur]
    IN  IF RunsAnotherStep(m)
          THEN IF again.tc < kMaxTransitionsPerFrame
                 THEN ProcessStateStep(again)
                 ELSE {Abort(again, "exceeded maximum transitions per frame")}
          ELSE {[done EXCEPT !.pc = "idle"]}

\* mutant: the loop of update() gives up one iteration before the bound
StepReturnsTrue_StopsEarly(m, from) ==
    LET done == [m EXCEPT !.steps = Append(@, StepRecord(from, m, TRUE, TRUE, FALSE, m.cur))]
        again == [done EXCEPT !.tc = @ + 1]
    IN  IF RunsAnotherStep(m)
          THEN IF again.tc < kMaxTransitionsPerFrame - 1
                 THEN ProcessStateStep(again)
                 ELSE {Abort(again, "exceeded maximum transitions per frame")}
          ELSE {[done EXCEPT !.pc = "idle"]}

\* mutant: the loop of update() does not count its iterations
StepReturnsTrue_NeverCounts(m, from) ==
    LET done == [m EXCEPT !.steps = Append(@, StepRecord(from, m, TRUE, TRUE, FALSE, m.cur))]
    IN  IF RunsAnotherStep(m)
          THEN ProcessStateStep(done)
          ELSE {[done EXCEPT !.pc = "idle"]}

\* mutant: the loop of update() runs one iteration more than the bound
StepReturnsTrue_OffByOne(m, from) ==
    LET done == [m EXCEPT !.steps = Append(@, StepRecord(from, m, TRUE, TRUE, FALSE, m.cur))]
        again == [done EXCEPT !.tc = @ + 1]
    IN  IF RunsAnotherStep(m)
          THEN IF again.tc <= kMaxTransitionsPerFrame
                 THEN ProcessStateStep(again)
                 ELSE {Abort(again, "exceeded maximum transitions per frame")}
          ELSE {[done EXCEPT !.pc = "idle"]}

\* processStateStep returned true: update() loops (Immediate) or returns
\* (SingleTransition); fsm.h:291-309
StepReturnsTrue(m, from) ==
    LET done == [m EXCEPT !.steps = Append(@, StepRecord(from, m, TRUE, TRUE, FALSE, m.cur))]
        again == [done EXCEPT !.tc = @ + 1]
    IN  IF RunsAnotherStep(m)
          THEN IF again.tc < kMaxTransitionsPerFrame
                 THEN ProcessStateStep(again)
                 ELSE {Abort(again, "exceeded maximum transitions per frame")}
          ELSE {[done EXCEPT !.pc = "idle"]}

\* mutant: the switch resets the marker to the sentinel
SwitchState_ClearsMarker(m) ==
    StepReturnsTrue([m EXCEPT !.cur = m.next, !.last = Count, !.next = NoState,
                              !.tdone = @ + 1, !.arrivals = Bump(@, m.next)],
                    m.cur)

\* mutant: the switch marks the target as entered, so that its onEnter is
\* never invoked
SwitchState_MarksTargetEntered(m) ==
    StepReturnsTrue([m EXCEPT !.cur = m.next, !.last = m.next, !.next = NoState,
                              !.tdone = @ + 1, !.arrivals = Bump(@, m.next)],
                    m.cur)

\* fsm.h:374-375  currentActiveState = nextState; return true
SwitchState(m) ==
    StepReturnsTrue([m EXCEPT !.cur = m.next, !.next = NoState, !.tdone = @ + 1,
                              !.arrivals = Bump(@, m.next)],
                    m.cur)

\* mutant: a decision that targets the current state restarts the state: the
\* marker is reset, so that the next step enters the state again
AfterUpdate_SelfRestarts(m, d) ==
    IF d.shouldRemainInCurrentState
      THEN {StepReturnsFalse(m, m.cur, TRUE, TRUE, NoState)}
      ELSE LET next == ToStateEnum(d.targetStateValue)
           IN  IF next = m.cur
                 THEN {StepReturnsFalse([m EXCEPT !.last = Count], m.cur, TRUE, FALSE, next)}
                 ELSE IF IsInvalidTransition(next, m.cur)
                 THEN {StepReturnsFalse(m, m.cur, TRUE, FALSE, next)}
                 ELSE UNION { IF cb.onExit
                                THEN {Invoke([m EXCEPT !.next = next,
                                                         !.exitCount = Bump(@, m.cur)],
                                             "onExit")}
                                ELSE SwitchState([m EXCEPT !.next = next])
                              : cb \in CurrentCallbacks(m.cur) }

\* mutant: the active state is switched before onExit is invoked
AfterUpdate_SwitchesFirst(m, d) ==
    IF d.shouldRemainInCurrentState
      THEN {StepReturnsFalse(m, m.cur, TRUE, TRUE, NoState)}
      ELSE LET next == ToStateEnum(d.targetStateValue)
           IN  IF IsInvalidTransition(next, m.cur)
                 THEN {StepReturnsFalse(m, m.cur, TRUE, FALSE, next)}
                 ELSE UNION { IF cb.onExit
                                THEN {[m EXCEPT !.cur = next, !.next = next, !.pc = "onExit",
                                                !.log = Append(@, Event("onExit", m.cur, m)),
                                                !.exitCount = Bump(@, m.cur)]}
                                ELSE SwitchState([m EXCEPT !.next = next])
                              : cb \in CurrentCallbacks(m.cur) }

\* fsm.h:354-372: the decision of onUpdate, and onExit before a transition
AfterUpdate(m, d) ==
    IF d.shouldRemainInCurrentState
      THEN {StepReturnsFalse(m, m.cur, TRUE, TRUE, NoState)}
      ELSE LET next == ToStateEnum(d.targetStateValue)
           IN  IF IsInvalidTransition(next, m.cur)
                 THEN {StepReturnsFalse(m, m.cur, TRUE, FALSE, next)}
                 ELSE UNION { IF cb.onExit
                                THEN {Invoke([m EXCEPT !.next = next,
                                                         !.exitCount = Bump(@, m.cur)],
                                             "onExit")}
                                ELSE SwitchState([m EXCEPT !.next = next])
                              : cb \in CurrentCallbacks(m.cur) }

\* does the decision make processStateStep execute a transition
IsTransition(m, d) ==
    /\ ~d.shouldRemainInCurrentState
    /\ ~IsInvalidTransition(ToStateEnum(d.targetStateValue), m.cur)

(***************************************************************************)
(* Construction: Fsm(initialState, contextData), fsm.h:219-229, for an     *)
(* initial state that passes the constructor's assertion.                  *)
(***************************************************************************)
Init ==
    /\ policy \in Policies
    /\ contextPointer \in ContextHandles
    /\ currentActiveState \in States
    /\ lastEnteredState = Count
    /\ allStateCallbacks = [s \in States |-> EmptyCallbacks]
    /\ pc = "idle"
    /\ failure = "none"
    /\ currentTime = 0
    /\ transitionCount = 0
    /\ nextState = NoState
    /\ builder = NoBuilder
    /\ log = <<>>
    /\ steps = <<>>
    /\ updateCalls = 0
    /\ transitionsDone = 0
    /\ updatesInvoked = 0
    /\ enterCount = [s \in States |-> 0]
    /\ exitCount = [s \in States |-> 0]
    /\ enterSteps = [s \in States |-> 0]
    /\ arrivals = [s \in States |-> IF s = currentActiveState THEN 1 ELSE 0]
    /\ conversion = NoConversion

\* fsm.h:228  assert(initialState < StateEnum::Count)
ConstructorAccepts(initialState) == initialState < Count

\* Fsm(initialState, contextData) for any value of the enum's underlying
\* type the caller passes, fsm.h:219-229
InitAnyState ==
    /\ policy \in Policies
    /\ contextPointer \in ContextHandles
    /\ currentActiveState \in TargetValues
    /\ lastEnteredState = Count
    /\ allStateCallbacks = [s \in States |-> EmptyCallbacks]
    /\ pc = IF ConstructorAccepts(currentActiveState) THEN "idle" ELSE "aborted"
    /\ failure = IF ConstructorAccepts(currentActiveState)
                   THEN "none" ELSE "initial state is invalid"
    /\ currentTime = 0
    /\ transitionCount = 0
    /\ nextState = NoState
    /\ builder = NoBuilder
    /\ log = <<>>
    /\ steps = <<>>
    /\ updateCalls = 0
    /\ transitionsDone = 0
    /\ updatesInvoked = 0
    /\ enterCount = [s \in States |-> 0]
    /\ exitCount = [s \in States |-> 0]
    /\ enterSteps = [s \in States |-> 0]
    /\ arrivals = [s \in States |-> IF s = currentActiveState THEN 1 ELSE 0]
    /\ conversion = NoConversion

\* user code runs: the caller between update() calls, or a callback body
UserCode == {"idle", "onEnter", "onUpdate", "onExit"}

machineVars == <<currentActiveState, lastEnteredState, pc, failure, currentTime,
                 transitionCount, nextState, log, steps, transitionsDone,
                 updatesInvoked, enterCount, exitCount, enterSteps, arrivals>>

(***************************************************************************)
(* Fsm::state(state), fsm.h:247-254: the two assertions, then a builder    *)
(* that refers to the state's slot of the table.                           *)
(***************************************************************************)
\* mutant: state() does not check whether update() has run
StateAccepted_NoStartedCheck(state) == state < Count

StateAccepted(state) == state < Count /\ lastEnteredState = Count

State(state) ==
    /\ pc \in UserCode
    /\ IF StateAccepted(state)
         THEN /\ builder' = state
              /\ UNCHANGED <<pc, failure>>
         ELSE /\ pc' = "aborted"
              /\ failure' = IF state < Count
                              THEN "cannot configure states after calling update()"
                              ELSE "invalid state"
              /\ UNCHANGED builder
    /\ UNCHANGED <<conversion, policy, contextPointer, currentActiveState, lastEnteredState,
                   allStateCallbacks, currentTime, transitionCount, nextState,
                   log, steps, updateCalls, transitionsDone, updatesInvoked, enterCount,
                   exitCount, enterSteps, arrivals>>

\* number of slots of the table that hold a callable
ConfiguredSlots(table) ==
    Cardinality({s \in States : table[s].onEnter})
    + Cardinality({s \in States : table[s].onUpdate # "none"})
    + Cardinality({s \in States : table[s].onExit})

(***************************************************************************)
(* StateConfiguration::onEnter / onUpdate / onExit, fsm.h:168-184: assign  *)
(* the slot the builder refers to.  The builder is a reference into the    *)
(* table and the setters check nothing.                                    *)
(***************************************************************************)
\* mutant: a setter resets the other two slots of the state it configures
SetSlot_ClearsOtherSlots(slot, value) ==
    /\ pc \in UserCode
    /\ builder \in States
    /\ allStateCallbacks' =
          [allStateCallbacks EXCEPT ![builder] = [EmptyCallbacks EXCEPT ![slot] = value]]
    /\ ConfiguredSlots(allStateCallbacks') <= MaxConfiguredSlots
    /\ UNCHANGED <<conversion, policy, contextPointer, builder, updateCalls>>
    /\ UNCHANGED machineVars

SetSlot(slot, value) ==
    /\ pc \in UserCode
    /\ builder \in States
    /\ allStateCallbacks' = [allStateCallbacks EXCEPT ![builder][slot] = value]
    /\ ConfiguredSlots(allStateCallbacks') <= MaxConfiguredSlots
    /\ UNCHANGED <<conversion, policy, contextPointer, builder, updateCalls>>
    /\ UNCHANGED machineVars

OnEnter == SetSlot("onEnter", TRUE)

OnUpdate == \E body \in UpdateBodies : SetSlot("onUpdate", body)

OnExit == SetSlot("onExit", TRUE)

(***************************************************************************)
(* Fsm::update(currentTime), fsm.h:282-310, up to the first callback       *)
(* invocation or its return.                                               *)
(***************************************************************************)
\* fsm.h:285-309 up to the first callback invocation: the sanity check,
\* then the first step
UpdateOutcomes(machine, t) ==
    LET m == [machine EXCEPT !.time = t, !.tc = 0, !.log = <<>>, !.steps = <<>>]
    IN  IF IsInvalidActiveState(m.cur)
          THEN {Abort(m, "state machine is in an invalid state")}
          ELSE ProcessStateStep(m)

UpdateCall(t, calls) ==
    /\ pc = "idle"
    /\ updateCalls < calls
    /\ updateCalls' = updateCalls + 1
    /\ \E m2 \in UpdateOutcomes(Machine, t) : Install(m2)
    /\ UNCHANGED <<conversion, policy, contextPointer, allStateCallbacks, builder>>

Update(t) == UpdateCall(t, MaxUpdates)

\* mutant: the step of a state ends when its onEnter returns, onUpdate is
\* left to the next step
OnEnterReturns_SkipsUpdate ==
    /\ pc = "onEnter"
    /\ Install(StepReturnsFalse(MarkEntered(Machine), currentActiveState, FALSE, FALSE, NoState))
    /\ UNCHANGED <<conversion, policy, contextPointer, allStateCallbacks, builder, updateCalls>>

\* onEnter returns into processStateStep: fsm.h:343, then fsm.h:346-352
OnEnterReturns ==
    /\ pc = "onEnter"
    /\ \E m2 \in AfterEnter(MarkEntered(Machine)) : Install(m2)
    /\ UNCHANGED <<conversion, policy, contextPointer, allStateCallbacks, builder, updateCalls>>

\* onUpdate returns its decision into processStateStep: fsm.h:352-375
OnUpdateReturns(d) ==
    /\ pc = "onUpdate"
    /\ allStateCallbacks[currentActiveState].onUpdate \in UpdateBodies
    /\ IsTransition(Machine, d) => transitionsDone < MaxTransitions
    /\ \E m2 \in AfterUpdate(Machine, d) : Install(m2)
    /\ UNCHANGED <<conversion, policy, contextPointer, allStateCallbacks, builder, updateCalls>>

\* onExit returns into processStateStep: fsm.h:374-375
OnExitReturns ==
    /\ pc = "onExit"
    /\ \E m2 \in SwitchState(Machine) : Install(m2)
    /\ UNCHANGED <<conversion, policy, contextPointer, allStateCallbacks, builder, updateCalls>>

Next ==
    \/ \E state \in States : State(state)
    \/ OnEnter
    \/ OnUpdate
    \/ OnExit
    \/ \E t \in TimeValues(updateCalls + 1) : Update(t)
    \/ OnEnterReturns
    \/ \E d \in Decisions : OnUpdateReturns(d)
    \/ OnExitReturns

Spec == Init /\ [][Next]_vars

\* the machine constructed with any initial state
SpecAnyInitialState == InitAnyState /\ [][Next]_vars

(***************************************************************************)
(* Machines whose onUpdate callbacks return the same decision at every     *)
(* invocation, as the lambdas of the tests do: `return                     *)
(* StateTransition::stay();`, `return StateTransition::to(S);`.  The       *)
(* caller configures every state in one go before the first update(), as   *)
(* fsm.state(S).onEnter(..).onUpdate(..).onExit(..) for each S, keeps no   *)
(* builder, and then only calls update().                                  *)
(***************************************************************************)
\* the callable [](Ctx*, double) { return StateTransition::to(v); }
AlwaysTo(v) == "always to " \o ToString(v)
AlwaysStay == "always stay"
ConstantBodies == {AlwaysStay} \cup {AlwaysTo(v) : v \in States}

\* what an onUpdate callable with the given body can return
BodyDecisions(body) ==
    IF body = "any" THEN Decisions
    ELSE IF body = AlwaysStay THEN {Stay}
    ELSE {TransitionTo(v) : v \in {w \in States : AlwaysTo(w) = body}}

\* the hooks of a configuration: which of onEnter and onExit the states get
ScriptedHooks == [onEnter : BOOLEAN, onExit : BOOLEAN]

\* the onUpdate callables of a configuration, state by state
ScriptedUpdates ==
    { u \in [States -> {"none"} \cup ConstantBodies] :
        Cardinality({s \in States : u[s] \notin {"none", AlwaysStay}})
            <= MaxTransitioningStates }

ScriptedTables ==
    { [s \in States |-> [onEnter |-> h.onEnter, onUpdate |-> u[s], onExit |-> h.onExit]]
      : h \in ScriptedHooks, u \in ScriptedUpdates }

\* fsm.state(S).onEnter(..).onUpdate(..).onExit(..) for the states S, on a
\* machine that has not been configured or updated yet
Configure(table) ==
    /\ pc = "idle"
    /\ updateCalls = 0
    /\ allStateCallbacks = [s \in States |-> EmptyCallbacks]
    /\ \A s \in States : StateAccepted(s)
    /\ table # allStateCallbacks
    /\ allStateCallbacks' = table
    /\ UNCHANGED <<conversion, policy, contextPointer, builder, updateCalls>>
    /\ UNCHANGED machineVars

\* an onUpdate callable with a constant body returns its decision into
\* processStateStep: fsm.h:352-375
OnUpdateReturnsConstant ==
    /\ pc = "onUpdate"
    /\ allStateCallbacks[currentActiveState].onUpdate \in ConstantBodies
    /\ \E d \in BodyDecisions(allStateCallbacks[currentActiveState].onUpdate) :
          \E m2 \in AfterUpdate(Machine, d) : Install(m2)
    /\ UNCHANGED <<conversion, policy, contextPointer, allStateCallbacks, builder, updateCalls>>

\* how many transitions of one update() call the comparison of the two
\* policies follows
MaxComparedTransitions == 2

\* the callback that is running returns into processStateStep
CallbackReturns(m) ==
    IF m.pc = "onEnter" THEN AfterEnter(MarkEntered(m))
    ELSE IF m.pc = "onUpdate"
      THEN UNION { AfterUpdate(m, d) : d \in BodyDecisions(allStateCallbacks[m.cur].onUpdate) }
    ELSE SwitchState(m)

\* the callbacks of an update() call return one after the other, until
\* update() is left or has executed more than MaxComparedTransitions
RECURSIVE RunCallbacks(_)
RunCallbacks(m) ==
    IF m.pc \notin {"onEnter", "onUpdate", "onExit"} \/ m.tc > MaxComparedTransitions
      THEN {m}
      ELSE UNION { RunCallbacks(m2) : m2 \in CallbackReturns(m) }

\* update(t) from call to return, for a machine compiled for policy p
RunUpdate(m, p, t) ==
    UNION { RunCallbacks(m2) : m2 \in UpdateOutcomes([m EXCEPT !.policy = p], t) }

\* what the caller and the callbacks see of one or more update() calls: did
\* they return, the invocations in order, the active state and the marker
Seen(m, invocations) ==
    [returned |-> m.pc = "idle", log |-> invocations, cur |-> m.cur, last |-> m.last]

\* n update(t) calls in a row, for a machine compiled for policy p
RECURSIVE RunUpdates(_, _, _, _, _)
RunUpdates(m, p, t, n, invocations) ==
    IF n = 0 \/ m.pc # "idle"
      THEN {Seen(m, invocations)}
      ELSE UNION { RunUpdates(m2, p, t, n - 1, invocations \o m2.log)
                   : m2 \in RunUpdate(m, p, t) }

NextScripted ==
    \/ \E table \in ScriptedTables : Configure(table)
    \/ \E t \in TimeValues(updateCalls + 1) : UpdateCall(t, MaxScriptedUpdates)
    \/ OnEnterReturns
    \/ OnUpdateReturnsConstant
    \/ OnExitReturns

\* StateConfiguration::onUpdate with a callable that always stays: a second
\* callable a caller can put into a slot that holds one already.  The
\* caller does it between update() calls: assigning to a slot whose callable
\* is running destroys the running callable.
OnUpdateStay == pc = "idle" /\ SetSlot("onUpdate", AlwaysStay)

\* the program of Spec whose caller has both callables for onUpdate
NextConfiguration ==
    \/ Next
    \/ OnUpdateStay
    \/ OnUpdateReturnsConstant

SpecConfiguration == Init /\ [][NextConfiguration]_vars

\* the machines of the tests: constructed with a context object
InitScripted == Init /\ contextPointer = "ctx"

SpecScripted == InitScripted /\ [][NextScripted]_vars

\* every callback returns: a callback that is running returns eventually
FairSpecScripted ==
    /\ SpecScripted
    /\ WF_vars(OnEnterReturns)
    /\ WF_vars(OnUpdateReturnsConstant)
    /\ WF_vars(OnExitReturns)

(***************************************************************************)
(* Machines whose onUpdate callbacks count: the callable keeps a counter   *)
(* of the onUpdate invocations in the context, returns a transition to the *)
(* next state of a ring while the count is within a limit, and stays from  *)
(* then on (the conditional transitions of the tests, which read a counter *)
(* of the context).  The limits are the two chain lengths around the bound *)
(* of update().                                                            *)
(***************************************************************************)
MaxCountedUpdates == 2

ChainLengths == {kMaxTransitionsPerFrame - 1, kMaxTransitionsPerFrame}

CountedTo(target, limit) ==
    "to " \o ToString(target) \o " for " \o ToString(limit) \o " invocations"

CountedBodies == { CountedTo(s, limit) : s \in States, limit \in ChainLengths }

\* the limit of a counting body
LimitOf(body) ==
    CHOOSE limit \in ChainLengths : \E s \in States : CountedTo(s, limit) = body

\* what a counting callable returns at the invocation that is the
\* invoked-th onUpdate invocation of the run
CountedDecisions(body, invoked) ==
    IF invoked <= LimitOf(body)
      THEN {TransitionTo(s) : s \in {w \in States : CountedTo(w, LimitOf(body)) = body}}
      ELSE {Stay}

\* the ring: every state goes to the next one, the last to the first
CountedTables ==
    { [s \in States |-> [onEnter |-> h.onEnter,
                         onUpdate |-> CountedTo((s + 1) % Count, limit),
                         onExit |-> h.onExit]]
      : h \in ScriptedHooks, limit \in ChainLengths }

\* onUpdate with a counting body returns into processStateStep: fsm.h:352-375
OnUpdateReturnsCounted ==
    /\ pc = "onUpdate"
    /\ allStateCallbacks[currentActiveState].onUpdate \in CountedBodies
    /\ \E d \in CountedDecisions(allStateCallbacks[currentActiveState].onUpdate, updatesInvoked) :
          \E m2 \in AfterUpdate(Machine, d) : Install(m2)
    /\ UNCHANGED <<conversion, policy, contextPointer, allStateCallbacks, builder, updateCalls>>

NextCounted ==
    \/ \E table \in CountedTables : Configure(table)
    \/ \E t \in TimeValues(updateCalls + 1) : UpdateCall(t, MaxCountedUpdates)
    \/ OnEnterReturns
    \/ OnUpdateReturnsCounted
    \/ OnExitReturns

SpecCounted == InitScripted /\ [][NextCounted]_vars

(***************************************************************************)
(* One decision from the callback to the engine, for an enumeration of any *)
(* underlying type: the callback returns StateTransition::to(value) or     *)
(* StateTransition::stay(), processStateStep tests the flag and casts the  *)
(* stored target back (fsm.h:354-359).                                     *)
(***************************************************************************)
\* the machine is constructed and left alone
InitEncoding ==
    /\ conversion \in { [phase |-> "chosen", type |-> type, value |-> value]
                        : type \in UnderlyingTypes, value \in UNION {EnumValues(t) : t \in UnderlyingTypes} }
    /\ conversion.value \in EnumValues(conversion.type)
    /\ policy = "Immediate"
    /\ contextPointer = "nullptr"
    /\ currentActiveState = 0
    /\ lastEnteredState = Count
    /\ allStateCallbacks = [s \in States |-> EmptyCallbacks]
    /\ pc = "idle"
    /\ failure = "none"
    /\ currentTime = 0
    /\ transitionCount = 0
    /\ nextState = NoState
    /\ builder = NoBuilder
    /\ log = <<>>
    /\ steps = <<>>
    /\ updateCalls = 0
    /\ transitionsDone = 0
    /\ updatesInvoked = 0
    /\ enterCount = [s \in States |-> 0]
    /\ exitCount = [s \in States |-> 0]
    /\ enterSteps = [s \in States |-> 0]
    /\ arrivals = [s \in States |-> IF s = currentActiveState THEN 1 ELSE 0]

\* fsm.h:47-51  StateTransition::to(newState)
ReturnTo ==
    /\ conversion.phase = "chosen"
    /\ conversion' =
          [phase |-> "returned", type |-> conversion.type, value |-> conversion.value,
           decision |-> [targetStateValue |-> StaticCastToUint64(conversion.type, conversion.value),
                         shouldRemainInCurrentState |-> FALSE]]
    /\ UNCHANGED <<policy, contextPointer, allStateCallbacks, builder, updateCalls>>
    /\ UNCHANGED machineVars

\* fsm.h:53  StateTransition::stay()
ReturnStay ==
    /\ conversion.phase = "chosen"
    /\ conversion' =
          [phase |-> "returned", type |-> conversion.type, value |-> conversion.value,
           decision |-> Stay]
    /\ UNCHANGED <<policy, contextPointer, allStateCallbacks, builder, updateCalls>>
    /\ UNCHANGED machineVars

\* fsm.h:354-359: the flag is tested, and the target is read and cast only
\* for a decision that does not stay
ReadDecision ==
    /\ conversion.phase = "returned"
    /\ conversion' =
          [phase |-> "processed", type |-> conversion.type, value |-> conversion.value,
           decision |-> conversion.decision,
           targetRead |-> ~conversion.decision.shouldRemainInCurrentState,
           nextState |->
              IF conversion.decision.shouldRemainInCurrentState
                THEN <<>>
                ELSE StaticCastToStateEnum(conversion.type,
                                           conversion.decision.targetStateValue)]
    /\ UNCHANGED <<policy, contextPointer, allStateCallbacks, builder, updateCalls>>
    /\ UNCHANGED machineVars

NextEncoding ==
    \/ ReturnTo
    \/ ReturnStay
    \/ ReadDecision

SpecEncoding == InitEncoding /\ [][NextEncoding]_vars

TypeOK ==
    /\ policy \in Policies
    /\ contextPointer \in ContextHandles
    /\ currentActiveState \in Int
    /\ lastEnteredState \in Int
    /\ allStateCallbacks \in [States -> [onEnter : BOOLEAN,
                                       onUpdate : {"none"} \cup UpdateBodies \cup ConstantBodies
                                                    \cup CountedBodies,
                                       onExit : BOOLEAN]]
    /\ pc \in UserCode \cup {"aborted", "crashed"}
    /\ transitionCount \in 0 .. kMaxTransitionsPerFrame
    /\ builder \in States \cup {NoBuilder}
    /\ updatesInvoked \in Nat
    /\ conversion.phase \in {"none", "chosen", "returned", "processed"}

\* Fsm::getCurrentState(), fsm.h:256
GetCurrentState == currentActiveState

\* Fsm::getContext(), fsm.h:257-258
GetContext == contextPointer

(***************************************************************************)
(* Vocabulary of the properties.                                           *)
(***************************************************************************)
\* update() has been called and has returned to the caller
Returned == pc = "idle" /\ updateCalls > 0

\* the callback invocations of the i-th processStateStep call of this update()
StepEvents(i) ==
    SubSeq(log, IF i = 1 THEN 1 ELSE steps[i - 1].end + 1, steps[i].end)

\* the invocations of the processStateStep call that is still running
RunningEvents ==
    SubSeq(log, IF steps = <<>> THEN 1 ELSE steps[Len(steps)].end + 1, Len(log))

\* how many invocations of callback cb a sequence of invocations holds
CountOf(events, cb) == Cardinality({k \in 1 .. Len(events) : events[k].cb = cb})

\* the active state has no onUpdate callback
Terminal ==
    currentActiveState \in States /\ allStateCallbacks[currentActiveState].onUpdate = "none"

(***************************************************************************)
(* C1.  Immediate policy: when update() has returned, it ran step after    *)
(* step, every step but the last reported a transition and was followed by *)
(* the step of the state it switched to (whose callbacks, and no other     *)
(* state's, that step invoked), and the last step reported no transition   *)
(* and was the step of the state getCurrentState() now reports.            *)
(***************************************************************************)
C1_ChainedRunsUntilNoTransition ==
    (policy = "Immediate" /\ Returned) =>
        /\ Len(steps) >= 1
        /\ Len(steps) = transitionCount + 1
        /\ Len(steps) <= kMaxTransitionsPerFrame
        /\ ~steps[Len(steps)].transitioned
        /\ steps[Len(steps)].st = currentActiveState
        /\ steps[Len(steps)].end = Len(log)
        /\ \A i \in 1 .. (Len(steps) - 1) :
              /\ steps[i].transitioned
              /\ steps[i].next # steps[i].st
              /\ steps[i + 1].st = steps[i].next
        /\ \A i \in 1 .. Len(steps) :
              /\ \A k \in 1 .. Len(StepEvents(i)) : StepEvents(i)[k].st = steps[i].st
              /\ steps[i].updated <=> CountOf(StepEvents(i), "onUpdate") = 1
              /\ (i > 1 /\ steps[i].updated /\ CountOf(StepEvents(i), "onEnter") = 1)
                     => StepEvents(i)[1].cb = "onEnter" /\ StepEvents(i)[2].cb = "onUpdate"

\* two transitions inside one update() call, the states reached by them
\* entered and updated in that call
C1_Witness ==
    /\ policy = "Immediate" /\ Returned
    /\ Len(steps) = 3
    /\ CountOf(StepEvents(2), "onEnter") = 1 /\ CountOf(StepEvents(2), "onUpdate") = 1
    /\ CountOf(StepEvents(3), "onUpdate") = 1

(***************************************************************************)
(* C2.  SingleTransition policy: an update() call runs one step; if that   *)
(* step was a transition, getCurrentState() is the target when update()    *)
(* returns, the target has been neither entered nor updated, and the next  *)
(* update() call invokes the target's onEnter (if it has one) and then its *)
(* onUpdate (if it has one).                                               *)
(***************************************************************************)
C2_OneStepPerCall ==
    (policy = "SingleTransition") =>
        /\ Len(steps) <= 1
        /\ Returned =>
              /\ Len(steps) = 1
              /\ steps[1].transitioned =>
                    /\ currentActiveState = steps[1].next
                    /\ currentActiveState # steps[1].st
                    /\ lastEnteredState = steps[1].st
                    /\ \A k \in 1 .. Len(log) : log[k].st # currentActiveState

C2_CallbackOf(cb) == <<Event(cb, currentActiveState, [time |-> currentTime'])>>

C2_NextCallEntersTarget ==
    (/\ policy = "SingleTransition" /\ Returned
     /\ steps[1].transitioned
     /\ currentActiveState \in States
     /\ updateCalls' = updateCalls + 1)
    => IF allStateCallbacks[currentActiveState].onEnter
         THEN pc' = "onEnter" /\ log' = C2_CallbackOf("onEnter")
         ELSE /\ lastEnteredState' = currentActiveState
              /\ IF allStateCallbacks[currentActiveState].onUpdate # "none"
                   THEN pc' = "onUpdate" /\ log' = C2_CallbackOf("onUpdate")
                   ELSE pc' = "idle" /\ log' = <<>>

C2_UpdateFollowsEnter ==
    (/\ policy = "SingleTransition"
     /\ pc = "onEnter" /\ pc' \notin {"onEnter", "aborted"})
    => /\ lastEnteredState' = currentActiveState
       /\ currentActiveState' = currentActiveState
       /\ IF allStateCallbacks[currentActiveState].onUpdate # "none"
            THEN pc' = "onUpdate" /\ log' = Append(log, C2_CallbackOf("onUpdate")[1])
            ELSE pc' = "idle" /\ log' = log

C2_SingleStepDefersEnter ==
    /\ []C2_OneStepPerCall
    /\ [][C2_NextCallEntersTarget /\ C2_UpdateFollowsEnter]_vars

\* the second update() call after a transition in the first: the target's
\* onEnter has run and its onUpdate is running
C2_Witness ==
    /\ policy = "SingleTransition"
    /\ updateCalls = 2 /\ transitionsDone = 1
    /\ pc = "onUpdate"
    /\ Len(log) = 2 /\ log[1].cb = "onEnter" /\ log[2].cb = "onUpdate"
    /\ arrivals[currentActiveState] = 1 /\ enterCount[currentActiveState] = 1


(***************************************************************************)
(* C3.  Before the first update() call no callback has been invoked and    *)
(* the active state is the initial state; the first update() call invokes  *)
(* the initial state's onEnter, if it has one, once and first: before      *)
(* onUpdate, and not again in the step that starts the call.               *)
(***************************************************************************)
C3_NothingBeforeFirstUpdate ==
    updateCalls = 0 =>
        /\ pc = "idle"
        /\ log = <<>> /\ steps = <<>>
        /\ lastEnteredState = Count
        /\ arrivals = [s \in States |-> IF s = currentActiveState THEN 1 ELSE 0]
        /\ \A s \in States : enterCount[s] = 0 /\ exitCount[s] = 0 /\ enterSteps[s] = 0

C3_FirstStepEntersOnce ==
    updateCalls = 1 =>
        LET first == IF steps = <<>> THEN log ELSE StepEvents(1)
        IN  /\ CountOf(first, "onEnter") <= 1
            /\ \A k \in 1 .. Len(first) :
                  /\ first[k].cb = "onEnter" => k = 1
                  /\ first[k].st = first[1].st

C3_FirstUpdateInvokesOnEnter ==
    (updateCalls = 0 /\ updateCalls' = 1) =>
        /\ currentActiveState' = currentActiveState
        /\ IF allStateCallbacks[currentActiveState].onEnter
             THEN /\ pc' = "onEnter"
                  /\ log' = <<Event("onEnter", currentActiveState, [time |-> currentTime'])>>
                  /\ enterCount' = [enterCount EXCEPT ![currentActiveState] = 1]
                  /\ steps' = <<>>
             ELSE /\ enterCount' = enterCount
                  /\ CountOf(log', "onEnter") = 0
                  /\ lastEnteredState' = currentActiveState

C4_IdempotentStaying ==
    /\ \A i \in 1 .. Len(steps) :
          steps[i].stay =>
              /\ ~steps[i].transitioned
              /\ steps[i].next = steps[i].st
              /\ CountOf(StepEvents(i), "onUpdate") = 1
              /\ CountOf(StepEvents(i), "onExit") = 0
    /\ (Returned /\ steps[Len(steps)].stay) =>
          /\ currentActiveState = steps[Len(steps)].st
          /\ lastEnteredState = currentActiveState
    /\ \A s \in States :
          /\ enterCount[s] <= arrivals[s]
          /\ enterSteps[s] <= arrivals[s]
          /\ (currentActiveState = s /\ lastEnteredState = s) => enterSteps[s] = arrivals[s]

\* the second of two update() calls that stay in a state with onEnter:
\* one onUpdate invocation in the call, onEnter invoked once in all
C4_Witness ==
    /\ Returned /\ updateCalls = 2 /\ transitionsDone = 0
    /\ Len(steps) = 1 /\ steps[1].stay
    /\ Len(log) = 1 /\ log[1].cb = "onUpdate"
    /\ allStateCallbacks[currentActiveState].onEnter
    /\ enterCount[currentActiveState] = 1

C6_ExitPrecedesStateChange ==
    /\ pc = "onExit" =>
          /\ log # <<>>
          /\ log[Len(log)].cb = "onExit"
          /\ log[Len(log)].st = currentActiveState
          /\ nextState # currentActiveState
          /\ nextState < Count
    /\ \A k \in 1 .. Len(RunningEvents) :
          pc \in {"onEnter", "onUpdate", "onExit"} => RunningEvents[k].st = currentActiveState
    /\ \A i \in 1 .. Len(steps) :
          /\ \A k \in 1 .. Len(StepEvents(i)) :
                /\ StepEvents(i)[k].st = steps[i].st
                /\ StepEvents(i)[k].cb = "onExit" =>
                      k = Len(StepEvents(i)) /\ steps[i].transitioned
          /\ steps[i].transitioned => steps[i].next # steps[i].st

\* one update() call in which onExit of the source is followed by onEnter
\* of the target
C6_Witness ==
    /\ Returned
    /\ \E k \in 1 .. (Len(log) - 1) :
          /\ log[k].cb = "onExit" /\ log[k + 1].cb = "onEnter"
          /\ log[k + 1].st # log[k].st
          /\ log[k + 1].st = currentActiveState

(***************************************************************************)
(* C7.  While the active state has no onUpdate callback, no step changes   *)
(* the active state or invokes that state's onExit, under either policy.   *)
(***************************************************************************)
C7_TerminalStep ==
    Terminal =>
        /\ currentActiveState' = currentActiveState
        /\ exitCount' = exitCount
        /\ transitionsDone' = transitionsDone

C7_TerminalStateNeverLeaves == [][C7_TerminalStep]_vars

\* a state without onUpdate reached by a transition and updated again
C7_Witness ==
    /\ Terminal /\ Returned
    /\ updateCalls = 2 /\ transitionsDone >= 1
    /\ Len(steps) = 1 /\ ~steps[1].updated

(***************************************************************************)
(* C8.  As claimed: a decision whose target is the current state or lies   *)
(* outside [0, Count) (Count, above it, below 0) leaves the active state   *)
(* unchanged and invokes no onExit.                                        *)
(***************************************************************************)
C8_InvalidTargetIsCoerced ==
    /\ pc = "onExit" => nextState \in States /\ nextState # currentActiveState
    /\ \A i \in 1 .. Len(steps) :
          (steps[i].updated /\ ~steps[i].stay
             /\ (steps[i].target = steps[i].st \/ steps[i].target \notin States))
          => /\ ~steps[i].transitioned
             /\ steps[i].next = steps[i].st
             /\ CountOf(StepEvents(i), "onExit") = 0

(***************************************************************************)
(* C9.  As claimed: the active state is always in [0, Count).              *)
(***************************************************************************)
C9_ActiveStateInRange == currentActiveState \in States

(***************************************************************************)
(* C10.  While no update() has been called, every state(s) call returns a  *)
(* builder for s and fails no assertion; once the first update() call has  *)
(* returned, every state(s) call, from the caller or from inside a         *)
(* callback of a later update(), fails the assertion "cannot configure     *)
(* states after calling update()" and returns no builder.                  *)
(***************************************************************************)
FirstUpdateReturned == updateCalls > 1 \/ (updateCalls = 1 /\ pc = "idle")

C10_ConfigurationWindow ==
    \A s \in States :
        pc \in UserCode =>
            /\ updateCalls = 0 =>
                  /\ ENABLED (State(s) /\ builder' = s /\ pc' = pc /\ failure' = "none")
                  /\ ~ENABLED (State(s) /\ pc' = "aborted")
            /\ FirstUpdateReturned =>
                  /\ ENABLED (State(s) /\ pc' = "aborted"
                                /\ failure' = "cannot configure states after calling update()")
                  /\ ~ENABLED (State(s) /\ pc' # "aborted")

\* state() called after update(): the program has aborted on the assertion
C10_Witness ==
    /\ pc = "aborted"
    /\ failure = "cannot configure states after calling update()"
    /\ updateCalls >= 1 /\ steps # <<>>

(***************************************************************************)
(* C11.  As claimed: once the first update() call has started, no slot of  *)
(* the callback table changes and no builder is handed out: a state() call *)
(* and a setter of a builder obtained earlier, made by the caller or from  *)
(* inside a callback, leave the table as it was.                           *)
(***************************************************************************)
C11_TableFrozenStep ==
    updateCalls > 0 =>
        /\ allStateCallbacks' = allStateCallbacks
        /\ builder' = builder

C11_CallbackTableFrozen == [][C11_TableFrozenStep]_vars

(***************************************************************************)
(* C12.  Immediate policy, states a and b whose onUpdate callbacks each    *)
(* always return a transition to the other: an update() call that runs a   *)
(* step of a or of b never returns to the caller; every step it runs       *)
(* reports a transition, it runs 256 steps (256 onUpdate invocations), and *)
(* then fails the assertion on the number of transitions per frame.        *)
(***************************************************************************)
PingPong(a, b) ==
    /\ a # b
    /\ allStateCallbacks[a].onUpdate = AlwaysTo(b)
    /\ allStateCallbacks[b].onUpdate = AlwaysTo(a)

C12_RunawayDetected ==
    \A a, b \in States :
        (/\ policy = "Immediate" /\ PingPong(a, b)
         /\ updateCalls > 0 /\ currentActiveState \in {a, b})
        => /\ pc \notin {"idle", "crashed"}
           /\ Len(steps) = transitionCount
           /\ \A i \in 1 .. Len(steps) : steps[i].transitioned
           /\ IF pc = "aborted"
                THEN /\ failure = "exceeded maximum transitions per frame"
                     /\ Len(steps) = kMaxTransitionsPerFrame
                     /\ CountOf(log, "onUpdate") = kMaxTransitionsPerFrame
                ELSE /\ Len(steps) < kMaxTransitionsPerFrame
                     /\ failure = "none"

\* the update() call of a ping-pong machine has failed after 256 steps
C12_Witness ==
    /\ policy = "Immediate"
    /\ \E a, b \in States : PingPong(a, b) /\ currentActiveState \in {a, b}
    /\ pc = "aborted" /\ failure = "exceeded maximum transitions per frame"
    /\ updateCalls = 1
    /\ Len(steps) = kMaxTransitionsPerFrame
    /\ steps[1].st # steps[2].st /\ steps[3].st = steps[1].st

(***************************************************************************)
(* C13.  For one callback table and one machine state, the two policies    *)
(* are compared handler by handler: the start of update(t), the return of  *)
(* onEnter and the return of onUpdate with a decision d, each taken in the *)
(* first step of an update() call.  The outcomes in which the first step   *)
(* has not reported a transition (it is still running before any onExit,   *)
(* or it has returned false and update() with it) are the same for a       *)
(* machine compiled for the Immediate policy and one compiled for the      *)
(* SingleTransition policy; an outcome holds the callback invocations with *)
(* their arguments in order, the active state and the last-entered marker. *)
(***************************************************************************)
\* the outcomes in which the first step of update() has reported no transition
NoTransitionOutcomes(outcomes) ==
    { m \in outcomes :
        \/ m.steps = <<>> /\ m.pc \in {"onEnter", "onUpdate"}
        \/ Len(m.steps) = 1 /\ ~m.steps[1].transitioned /\ m.pc = "idle" }

\* what the handler that runs next in the first step can lead to, for a
\* machine compiled for policy p
FirstStepOutcomes(p, d) ==
    IF pc = "idle"
      THEN UNION { UpdateOutcomes([Machine EXCEPT !.policy = p], t)
                   : t \in TimeValues(updateCalls + 1) }
    ELSE IF pc = "onEnter" /\ steps = <<>>
      THEN AfterEnter(MarkEntered([Machine EXCEPT !.policy = p]))
    ELSE IF pc = "onUpdate" /\ steps = <<>>
      THEN AfterUpdate([Machine EXCEPT !.policy = p], d)
    ELSE {}

\* an outcome without the policy the machine is compiled for
Observable(outcomes) ==
    { [f \in (DOMAIN m) \ {"policy"} |-> m[f]] : m \in outcomes }

\* the decisions the handler that runs next depends on
FirstStepDecisions ==
    IF pc = "onUpdate" /\ steps = <<>> THEN Decisions
    ELSE IF pc = "idle" \/ (pc = "onEnter" /\ steps = <<>>) THEN {Stay}
    ELSE {}

C13_PolicyEquivalence ==
    \A d \in FirstStepDecisions :
        Observable(NoTransitionOutcomes(FirstStepOutcomes("Immediate", d)))
            = Observable(NoTransitionOutcomes(FirstStepOutcomes("SingleTransition", d)))

\* an Immediate update() whose only step entered the state, ran onUpdate and
\* dropped the decision (a transition to the sentinel Count)
C13_Witness ==
    /\ policy = "Immediate" /\ Returned
    /\ Len(steps) = 1 /\ ~steps[1].transitioned
    /\ steps[1].updated /\ steps[1].target = Count
    /\ Len(log) = 2 /\ log[1].cb = "onEnter" /\ log[2].cb = "onUpdate"
    /\ lastEnteredState = currentActiveState

(***************************************************************************)
(* C14.  A machine constructed in state a whose onUpdate callbacks make    *)
(* the chain a -> b -> c (a and b always transition, c always stays), as   *)
(* Idle -> Running -> Jumping.  Immediate: the first update() call returns *)
(* with the active state c and both b and c entered (their onEnter         *)
(* invoked once, if they have one).  SingleTransition: the first call      *)
(* returns with the active state b and b not entered, the second with the  *)
(* active state c, b entered and c not entered, and the third with c       *)
(* entered.                                                                *)
(***************************************************************************)
Chain(a, b, c) ==
    /\ a # b /\ b # c /\ a # c
    /\ allStateCallbacks[a].onUpdate = AlwaysTo(b)
    /\ allStateCallbacks[b].onUpdate = AlwaysTo(c)
    /\ allStateCallbacks[c].onUpdate = AlwaysStay

\* the enter step of s has run once, with its onEnter if it has one
EnteredOnce(s) ==
    /\ enterSteps[s] = 1
    /\ enterCount[s] = IF allStateCallbacks[s].onEnter THEN 1 ELSE 0

NotEntered(s) == enterSteps[s] = 0 /\ enterCount[s] = 0

C14_ChainDivergence ==
    \A a, b, c \in States :
        \* arrivals[a] = 1: the machine was constructed in state a
        (Chain(a, b, c) /\ arrivals[a] = 1 /\ Returned) =>
            /\ policy = "Immediate" =>
                  /\ currentActiveState = c
                  /\ EnteredOnce(b) /\ EnteredOnce(c)
                  /\ updateCalls = 1 => Len(steps) = 3
            /\ policy = "SingleTransition" =>
                  /\ updateCalls = 1 => currentActiveState = b /\ NotEntered(b) /\ NotEntered(c)
                  /\ updateCalls = 2 => currentActiveState = c /\ EnteredOnce(b) /\ NotEntered(c)
                  /\ updateCalls >= 3 => currentActiveState = c /\ EnteredOnce(b) /\ EnteredOnce(c)

\* the third SingleTransition update() of the chain has invoked onEnter of
\* the last state of the chain and returned
C14_Witness ==
    /\ policy = "SingleTransition" /\ Returned /\ updateCalls = 3
    /\ \E a, b, c \in States :
          /\ Chain(a, b, c) /\ arrivals[a] = 1
          /\ currentActiveState = c
          /\ enterCount[b] = 1 /\ enterCount[c] = 1
          /\ Len(log) = 2 /\ log[1] = Event("onEnter", c, [time |-> currentTime])

(***************************************************************************)
(* C15.  The context handle stored by the constructor (nullptr when the    *)
(* caller gave none) is never changed by state(), by a setter or by        *)
(* update() and its callbacks' returns; getContext() returns it, and every *)
(* onEnter, onUpdate and onExit invocation has received it.                *)
(***************************************************************************)
C15_CallbacksReceiveContext ==
    /\ GetContext \in ContextHandles
    /\ \A k \in 1 .. Len(log) : log[k].ctx = GetContext

C15_ContextPassthrough ==
    /\ []C15_CallbacksReceiveContext
    /\ [][contextPointer' = contextPointer]_vars

\* a machine constructed without a context has invoked onEnter, onUpdate
\* and onExit in one update() call, each with the null handle
C15_Witness ==
    /\ GetContext = "nullptr"
    /\ Len(log) = 3
    /\ log[1].cb = "onEnter" /\ log[2].cb = "onUpdate" /\ log[3].cb = "onExit"
    /\ \A k \in 1 .. 3 : log[k].ctx = "nullptr"
    /\ Returned

(***************************************************************************)
(* C16.  As claimed: an update() call made while the active state is       *)
(* outside [0, Count) fails the assertion "state machine is in an invalid  *)
(* state" and does nothing else: no callback is invoked, the table is not  *)
(* read, the active state and the last-entered marker stay as they were.   *)
(***************************************************************************)
C16_InvalidStateStep ==
    (pc = "idle" /\ GetCurrentState \notin States /\ updateCalls' = updateCalls + 1) =>
        /\ pc' = "aborted"
        /\ failure' = "state machine is in an invalid state"
        /\ log' = <<>> /\ steps' = <<>>
        /\ currentActiveState' = currentActiveState
        /\ lastEnteredState' = lastEnteredState

C16_InvalidActiveStateAborts == [][C16_InvalidStateStep]_vars

(***************************************************************************)
(* C17.  As claimed: a machine that has been constructed without failing   *)
(* an assertion, and has not been updated yet, has its active state in     *)
(* [0, Count): the constructor rejects Count, values above it and values   *)
(* below 0.                                                                *)
(***************************************************************************)
C17_ConstructedInRange ==
    (updateCalls = 0 /\ pc # "aborted") => GetCurrentState \in States

(***************************************************************************)
(* C18.  If every callback returns, every update() call ends: it returns   *)
(* to the caller or fails an assertion.  Under the Immediate policy it     *)
(* runs at most 256 steps, with at most one onUpdate invocation each, and  *)
(* the steps it has finished are counted by its loop variable; under the   *)
(* SingleTransition policy it runs one step.                               *)
(***************************************************************************)
\* an update() call is under way: control is inside one of its callbacks
Updating == pc \in {"onEnter", "onUpdate", "onExit"}

C18_StepBound ==
    /\ Len(steps) <= kMaxTransitionsPerFrame
    /\ CountOf(log, "onUpdate") <= kMaxTransitionsPerFrame
    /\ CountOf(log, "onUpdate") <= Len(steps) + (IF Updating THEN 1 ELSE 0)
    /\ policy = "Immediate" =>
          /\ Updating => Len(steps) = transitionCount /\ transitionCount < kMaxTransitionsPerFrame
          /\ Returned => Len(steps) >= 1 /\ Len(steps) = transitionCount + 1
    /\ policy = "SingleTransition" =>
          /\ Updating => steps = <<>>
          /\ Returned => Len(steps) = 1

C18_UpdateTerminates ==
    /\ []C18_StepBound
    /\ Updating ~> ~Updating

\* an Immediate update() has run three steps, two transitions and a step
\* that stayed, with onEnter, onUpdate and onExit invoked, and has returned
C18_Witness ==
    /\ policy = "Immediate" /\ Returned /\ updateCalls = 1
    /\ Len(steps) = 3 /\ CountOf(log, "onUpdate") = 3
    /\ steps[1].transitioned /\ steps[2].transitioned /\ ~steps[3].transitioned
    /\ Len(log) = 3 + 3 + 2

(***************************************************************************)
(* C19.  The callbacks one step invokes are callbacks of the state the     *)
(* step runs for, each at most once, in the order onEnter, onUpdate,       *)
(* onExit; onEnter runs while the last-entered marker still differs from   *)
(* the active state, onExit only after onUpdate and before the switch of   *)
(* the active state.                                                       *)
(***************************************************************************)
\* position of a callback in the order of a step
Rank(cb) == IF cb = "onEnter" THEN 1 ELSE IF cb = "onUpdate" THEN 2 ELSE 3

\* invocations of one state, in the order of a step, none repeated
InStepOrder(events, state) ==
    /\ \A k \in 1 .. Len(events) : events[k].st = state
    /\ \A k \in 1 .. (Len(events) - 1) : Rank(events[k].cb) < Rank(events[k + 1].cb)

C19_OrderWithinStep ==
    /\ \A i \in 1 .. Len(steps) :
          /\ InStepOrder(StepEvents(i), steps[i].st)
          /\ steps[i].updated <=> CountOf(StepEvents(i), "onUpdate") = 1
          /\ CountOf(StepEvents(i), "onExit") = 1 =>
                steps[i].updated /\ steps[i].transitioned /\ steps[i].next # steps[i].st
    /\ Updating =>
          /\ InStepOrder(RunningEvents, currentActiveState)
          /\ RunningEvents # <<>>
          /\ RunningEvents[Len(RunningEvents)].cb = pc
    /\ pc = "onEnter" => currentActiveState # lastEnteredState
    /\ pc \in {"onUpdate", "onExit"} => currentActiveState = lastEnteredState

\* onExit is invoked only when the decision is a valid transition: its
\* target is a state of the enum other than the current one
C19_ExitOnlyOnValidTransition ==
    /\ pc = "onExit" => nextState \in States \ {currentActiveState}
    /\ \A i \in 1 .. Len(steps) :
          CountOf(StepEvents(i), "onExit") = 1 =>
              steps[i].target \in States \ {steps[i].st}

\* as claimed
C19_CallbackOrder == C19_OrderWithinStep /\ C19_ExitOnlyOnValidTransition

(***************************************************************************)
(* C20.  Every callback invoked during the n-th update(t) call has         *)
(* received t, the time the caller passed to that call: onEnter, onUpdate  *)
(* and onExit, of the state the call started in and of every state it      *)
(* reached by chaining.                                                    *)
(***************************************************************************)
C20_TimePassthrough ==
    /\ updateCalls > 0 => currentTime \in TimeValues(updateCalls)
    /\ \A k \in 1 .. Len(log) : log[k].time = currentTime

\* an Immediate update() call has left a state and reached another by
\* chaining: onExit of the one, onEnter and onUpdate of the other, each
\* with the time of the call
C20_Witness ==
    /\ policy = "Immediate" /\ Returned /\ updateCalls = 1
    /\ \E t \in TimeValues(1) :
          \E k \in 1 .. (Len(log) - 2) :
              /\ log[k].cb = "onExit" /\ log[k].time = t
              /\ log[k + 1].cb = "onEnter" /\ log[k + 1].time = t
              /\ log[k + 2].cb = "onUpdate" /\ log[k + 2].time = t
              /\ log[k + 1].st # log[k].st

(***************************************************************************)
(* C21.  A setter called on the builder of state s replaces the slot it    *)
(* names in the bundle of s with the callable it is given, whatever the    *)
(* slot held before; the other two slots of s, every slot of every other   *)
(* state, the active state and the last-entered marker are as they were;   *)
(* and nothing but a setter changes the table, so that a slot never set    *)
(* is still empty.                                                         *)
(***************************************************************************)
SlotNames == {"onEnter", "onUpdate", "onExit"}

SlotReplaced(slot, value) ==
    /\ builder \in States
    /\ allStateCallbacks'[builder][slot] = value
    /\ \A s \in States, k \in SlotNames :
          (s # builder \/ k # slot) => allStateCallbacks'[s][k] = allStateCallbacks[s][k]
    /\ currentActiveState' = currentActiveState
    /\ lastEnteredState' = lastEnteredState

C21_SetterStep ==
    /\ OnEnter => SlotReplaced("onEnter", TRUE)
    /\ OnExit => SlotReplaced("onExit", TRUE)
    /\ \A body \in UpdateBodies : SetSlot("onUpdate", body) => SlotReplaced("onUpdate", body)
    /\ OnUpdateStay => SlotReplaced("onUpdate", AlwaysStay)
    /\ allStateCallbacks' # allStateCallbacks => (OnEnter \/ OnUpdate \/ OnExit \/ OnUpdateStay)

C21_SetterReplacesOneSlot == [][C21_SetterStep]_vars

\* a transition has been executed, which only a callable that can decide to
\* leave does, and no onUpdate slot holds such a callable any more: a setter
\* has replaced it by the callable that stays, next to a slot still empty
C21_Witness ==
    /\ transitionsDone > 0
    /\ \A s \in States : allStateCallbacks[s].onUpdate \notin UpdateBodies
    /\ \E s \in States :
          /\ allStateCallbacks[s].onUpdate = AlwaysStay
          /\ allStateCallbacks[s].onEnter
          /\ ~allStateCallbacks[s].onExit

(***************************************************************************)
(* C22.  Immediate policy, a table configured before the first update():   *)
(* when update() has returned normally n times and every state that has    *)
(* been active has an onUpdate callback, onUpdate has been invoked n times *)
(* plus once for every transition executed.                                *)
(***************************************************************************)
\* every state that has been the active state has an onUpdate callback
VisitedStatesUpdate ==
    /\ currentActiveState \in States
    /\ \A s \in States : arrivals[s] > 0 => allStateCallbacks[s].onUpdate # "none"

C22_UpdateCountChained ==
    (policy = "Immediate" /\ Returned /\ VisitedStatesUpdate) =>
        updatesInvoked = updateCalls + transitionsDone

\* three calls of a machine that chained through two transitions
C22_Witness ==
    /\ policy = "Immediate" /\ Returned /\ VisitedStatesUpdate
    /\ updateCalls = 3 /\ transitionsDone = 2 /\ updatesInvoked = 5

(***************************************************************************)
(* C23.  A state with onEnter and without onUpdate that a transition has   *)
(* made the active state: its onEnter is invoked exactly once, in the      *)
(* update() call of the transition under Immediate (whose last step it     *)
(* is), in the next call under SingleTransition; and every update() call   *)
(* made after that invokes no callback at all.                             *)
(***************************************************************************)
\* the active state is a terminal state with onEnter, reached by a transition
InTerminalTarget ==
    /\ Terminal
    /\ allStateCallbacks[currentActiveState].onEnter
    /\ transitionsDone > 0

\* the current update() call executed a transition
TransitionedInCall == \E i \in 1 .. Len(steps) : steps[i].transitioned

C23_AtReturn ==
    (InTerminalTarget /\ Returned) =>
        LET T == currentActiveState
        IN  /\ enterCount[T] = (IF lastEnteredState = T THEN 1 ELSE 0)
            /\ (policy = "Immediate" /\ TransitionedInCall) =>
                  /\ lastEnteredState = T
                  /\ log[Len(log)].cb = "onEnter" /\ log[Len(log)].st = T
                  /\ steps[Len(steps)].st = T /\ ~steps[Len(steps)].updated
            /\ (policy = "SingleTransition" /\ TransitionedInCall) =>
                  /\ lastEnteredState # T
                  /\ \A k \in 1 .. Len(log) : log[k].st # T
            /\ ~TransitionedInCall =>
                  /\ lastEnteredState = T
                  /\ log = <<>> \/ (policy = "SingleTransition" /\ Len(log) = 1
                                     /\ log[1].cb = "onEnter" /\ log[1].st = T)

C23_UpdateStep ==
    (InTerminalTarget /\ Returned /\ updateCalls' = updateCalls + 1) =>
        IF lastEnteredState = currentActiveState
          THEN pc' = "idle" /\ log' = <<>> /\ enterCount' = enterCount
          ELSE pc' = "onEnter" /\ Len(log') = 1

C23_TerminalTargetEnteredOnce == []C23_AtReturn /\ [][C23_UpdateStep]_vars

\* single-step: the transition, the call that entered the terminal state and
\* a call that invoked nothing
C23_Witness ==
    /\ InTerminalTarget /\ Returned /\ policy = "SingleTransition"
    /\ updateCalls = 3 /\ log = <<>> /\ enterCount[currentActiveState] = 1

(***************************************************************************)
(* C24.  SingleTransition policy.  A call of update() whose onUpdate       *)
(* decides to stay keeps the active state and has invoked onUpdate once; a *)
(* call whose onUpdate decides a transition that is executed leaves the    *)
(* target as the active state and has invoked no callback of the target;   *)
(* the call after it, for a target that has onEnter and onUpdate, invokes  *)
(* the target's onEnter and, when that returns, its onUpdate.              *)
(***************************************************************************)
C24_AtReturn ==
    (policy = "SingleTransition" /\ Returned) =>
        /\ Len(steps) = 1
        /\ steps[1].stay =>
              /\ currentActiveState = steps[1].st
              /\ CountOf(log, "onUpdate") = 1
        /\ steps[1].transitioned =>
              /\ currentActiveState = steps[1].target
              /\ currentActiveState # steps[1].st
              /\ lastEnteredState = steps[1].st
              /\ \A k \in 1 .. Len(log) : log[k].st = steps[1].st

\* the target of the transition of the last call has onEnter and onUpdate
TargetAwaitsEnter ==
    /\ policy = "SingleTransition" /\ Returned
    /\ steps[1].transitioned
    /\ currentActiveState \in States
    /\ allStateCallbacks[currentActiveState].onEnter
    /\ allStateCallbacks[currentActiveState].onUpdate # "none"

\* the active state is being entered in the call after its transition
TargetEntering ==
    /\ policy = "SingleTransition" /\ pc = "onEnter"
    /\ transitionsDone > 0
    /\ allStateCallbacks[currentActiveState].onUpdate # "none"

C24_FollowingCall ==
    /\ (TargetAwaitsEnter /\ updateCalls' = updateCalls + 1) =>
          /\ pc' = "onEnter"
          /\ log' = <<Event("onEnter", currentActiveState, [time |-> currentTime'])>>
    /\ (TargetEntering /\ pc' \notin {"onEnter", "aborted"}) =>
          /\ pc' = "onUpdate"
          /\ log' = Append(log, Event("onUpdate", currentActiveState, [time |-> currentTime]))
          /\ currentActiveState' = currentActiveState

C25_MarkerIsUpdatedFlag ==
    /\ updateCalls = 0 => lastEnteredState = Count
    /\ Returned => lastEnteredState \in States

(***************************************************************************)
(* C26.  A step whose onUpdate decides a transition to the state it runs   *)
(* for reports no transition: it invokes no onExit, it is the last step of *)
(* its update() call under either policy, the state is still the active    *)
(* state and still the entered one; and no step invokes onEnter of a state *)
(* that is the active and entered state and stays it.                      *)
(***************************************************************************)
\* the i-th step of the current update() call decided to go to its own state
SelfTransition(i) ==
    steps[i].updated /\ ~steps[i].stay /\ steps[i].target = steps[i].st

C26_SelfTransitionStep ==
    \A i \in 1 .. Len(steps) :
        SelfTransition(i) =>
            /\ ~steps[i].transitioned
            /\ CountOf(StepEvents(i), "onExit") = 0
            /\ i = Len(steps)
            /\ pc \in {"idle", "aborted"}
            /\ currentActiveState = steps[i].st
            /\ lastEnteredState = steps[i].st

C26_NoReenter ==
    (/\ currentActiveState \in States
     /\ lastEnteredState = currentActiveState
     /\ currentActiveState' = currentActiveState) =>
        /\ enterCount'[currentActiveState] = enterCount[currentActiveState]
        /\ pc' # "onEnter"

C26_SelfTransitionDoesNotRestart == []C26_SelfTransitionStep /\ [][C26_NoReenter]_vars

\* a chained call that ended with a self-transition of a state with onEnter,
\* entered once, in the second call
C26_Witness ==
    /\ policy = "Immediate" /\ Returned /\ updateCalls = 2
    /\ SelfTransition(Len(steps))
    /\ allStateCallbacks[currentActiveState].onEnter
    /\ enterCount[currentActiveState] = 1

(***************************************************************************)
(* C27.  While onUpdate or onExit of a state runs, that state is the       *)
(* active state and the last-entered marker equals it, and the enter step  *)
(* (fsm.h:337-344) has run once for every time the state became active.    *)
(***************************************************************************)
C27_UpdatedAndExitedStateIsEntered ==
    pc \in {"onUpdate", "onExit"} =>
        /\ currentActiveState \in States
        /\ log[Len(log)].cb = pc
        /\ log[Len(log)].st = currentActiveState
        /\ lastEnteredState = currentActiveState
        /\ enterSteps[currentActiveState] = arrivals[currentActiveState]

\* onUpdate of a state without onEnter runs, in the state's second residency
C27_Witness ==
    /\ pc = "onUpdate"
    /\ ~allStateCallbacks[currentActiveState].onEnter
    /\ arrivals[currentActiveState] = 2

(***************************************************************************)
(* C28.  When update() has returned: under Immediate the last-entered      *)
(* marker equals the active state; under SingleTransition it equals the    *)
(* active state exactly when the call executed no transition, and is the   *)
(* state the call's transition left otherwise.                             *)
(***************************************************************************)
C28_MarkerAtReturn ==
    Returned =>
        /\ policy = "Immediate" => lastEnteredState = currentActiveState
        /\ policy = "SingleTransition" =>
              /\ lastEnteredState = currentActiveState <=> ~TransitionedInCall
              /\ TransitionedInCall => lastEnteredState = steps[1].st

\* a single-step call that executed a transition between two states of the
\* table, after a call that executed none
C28_Witness ==
    /\ policy = "SingleTransition" /\ Returned /\ updateCalls = 2
    /\ transitionsDone = 1 /\ TransitionedInCall
    /\ currentActiveState \in States
    /\ lastEnteredState = steps[1].st /\ lastEnteredState # currentActiveState

(***************************************************************************)
(* C29.  From any state in which update() can be called, with callbacks    *)
(* that decide the same at every invocation: an Immediate update(t) that   *)
(* returns after k transitions has invoked the callbacks that k + 1        *)
(* SingleTransition update(t) calls invoke, in the same order and with the *)
(* same arguments, and leaves the same active state and the same marker.   *)
(***************************************************************************)
C29_ChainedEqualsSingleSteps ==
    pc = "idle" =>
        \A t \in TimeValues(updateCalls + 1) :
            \A c \in RunUpdate(Machine, "Immediate", t) :
                (c.pc = "idle" /\ c.tc <= MaxComparedTransitions) =>
                    RunUpdates(Machine, "SingleTransition", t, c.tc + 1, <<>>)
                        = {Seen(c, c.log)}

\* a start from which the chained call goes through two transitions and
\* invokes onEnter, onUpdate and onExit on its way
C29_Witness ==
    /\ pc = "idle"
    /\ \E t \in TimeValues(updateCalls + 1) :
          \E c \in RunUpdate(Machine, "Immediate", t) :
              /\ c.pc = "idle" /\ c.tc = 2
              /\ CountOf(c.log, "onEnter") = 3 /\ CountOf(c.log, "onExit") = 2

(***************************************************************************)
(* C30.  Immediate policy.  An update() call returns to its caller exactly *)
(* when fewer than 256 of its steps reported a transition: a call that has *)
(* returned ran at most 255 steps that did, and then one that did not; a   *)
(* call that ran 256 such steps fails the assertion on the transitions per *)
(* frame, with the target of the 256th transition as the active state and  *)
(* the marker still at the state that transition left.  A ring whose       *)
(* callbacks go on for 255 invocations returns from its first call after   *)
(* 255 transitions; a ring whose callbacks go on for 256 invocations and   *)
(* would stay at the 257th never returns from it.                          *)
(***************************************************************************)
\* the steps of the current update() call that reported a transition
TransitionedSteps == {i \in 1 .. Len(steps) : steps[i].transitioned}

\* the ring is configured with callbacks that go on for limit invocations
RingOf(limit) ==
    \A s \in States : allStateCallbacks[s].onUpdate = CountedTo((s + 1) % Count, limit)

C30_ChainedBound ==
    (policy = "Immediate" /\ updateCalls > 0) =>
        /\ Cardinality(TransitionedSteps) = transitionCount
        /\ pc = "idle" =>
              /\ transitionCount < kMaxTransitionsPerFrame
              /\ Len(steps) = transitionCount + 1
              /\ ~steps[Len(steps)].transitioned
        /\ pc \in {"onEnter", "onUpdate", "onExit"} =>
              /\ transitionCount < kMaxTransitionsPerFrame
              /\ Len(steps) = transitionCount
        /\ pc = "aborted" =>
              /\ failure = "exceeded maximum transitions per frame"
              /\ transitionCount = kMaxTransitionsPerFrame
              /\ Len(steps) = kMaxTransitionsPerFrame
              /\ currentActiveState = steps[Len(steps)].target
              /\ lastEnteredState = steps[Len(steps)].st
              /\ lastEnteredState # currentActiveState
              /\ log[Len(log)].st = steps[Len(steps)].st
        /\ RingOf(kMaxTransitionsPerFrame - 1) =>
              /\ pc # "aborted"
              /\ (pc = "idle" /\ updateCalls = 1) =>
                    transitionCount = kMaxTransitionsPerFrame - 1
        /\ RingOf(kMaxTransitionsPerFrame) => pc # "idle"

\* the ring of 256 transitions has hit the bound: the 256th target is the
\* active state and its onEnter, which the table has, has not run for it
C30_Witness ==
    /\ policy = "Immediate" /\ RingOf(kMaxTransitionsPerFrame)
    /\ pc = "aborted" /\ failure = "exceeded maximum transitions per frame"
    /\ transitionsDone = kMaxTransitionsPerFrame
    /\ allStateCallbacks[currentActiveState].onEnter
    /\ lastEnteredState # currentActiveState

(***************************************************************************)
(* C31.  As claimed: between update() calls, for every state that has both *)
(* an onEnter and an onExit callback, the onEnter invocations of the state *)
(* are one more than its onExit invocations when the state is the active   *)
(* state and the last-entered marker equals it, and as many otherwise.  It *)
(* fails for a state that gets its onEnter after it has been entered.      *)
(***************************************************************************)
C31_EnterExitBalance ==
    pc = "idle" =>
        \A s \in States :
            (allStateCallbacks[s].onEnter /\ allStateCallbacks[s].onExit) =>
                enterCount[s] - exitCount[s] =
                    (IF currentActiveState = s /\ lastEnteredState = s THEN 1 ELSE 0)

(***************************************************************************)
(* C32.  For every underlying type of the enumeration and every value of   *)
(* it: the decision of StateTransition::to(value) holds a 64-bit unsigned  *)
(* number, and the engine's cast of it is the value again; for a decision  *)
(* of StateTransition::stay() the engine does not read the stored target:  *)
(* processStateStep does the same whatever the decision holds there.  For  *)
(* the underlying type int, the type of the machines above, the cast the   *)
(* engine applies (ToStateEnum) yields the number that to() stored.        *)
(***************************************************************************)
\* the stored targets of all values of all types
StoredTargets ==
    { StaticCastToUint64(type, value) : type \in UnderlyingTypes,
                                        value \in UNION {EnumValues(t) : t \in UnderlyingTypes} }

C32_TargetRoundTrip ==
    /\ conversion.phase \in {"returned", "processed"} =>
          /\ DOMAIN conversion.decision.targetStateValue = 1 .. 4
          /\ \A i \in 1 .. 4 : conversion.decision.targetStateValue[i] \in 0 .. (Limb - 1)
    /\ conversion.phase = "processed" =>
          IF conversion.decision.shouldRemainInCurrentState
            THEN ~conversion.targetRead /\ conversion.nextState = <<>>
            ELSE conversion.targetRead /\ conversion.nextState = conversion.value
    /\ (conversion.phase = "returned" /\ conversion.decision.shouldRemainInCurrentState) =>
          \A u \in StoredTargets :
              AfterUpdate([Machine EXCEPT !.pc = "onUpdate"],
                          [conversion.decision EXCEPT !.targetStateValue = u])
                = AfterUpdate([Machine EXCEPT !.pc = "onUpdate"], conversion.decision)
    /\ (/\ conversion.phase = "returned"
        /\ ~conversion.decision.shouldRemainInCurrentState
        /\ conversion.type = [signed |-> TRUE, bits |-> 32]) =>
          ToUint64(ToStateEnum(conversion.decision.targetStateValue))
            = conversion.decision.targetStateValue

\* the smallest value of a signed 64-bit enumeration has made the round trip
C32_Witness ==
    /\ conversion.phase = "processed"
    /\ conversion.type = [signed |-> TRUE, bits |-> 64]
    /\ conversion.value = <<0, 0, 0, Limb \div 2>>
    /\ ~conversion.decision.shouldRemainInCurrentState
    /\ conversion.nextState = conversion.value
====
